---------------------------- MODULE Spec2Model ----------------------------
(* Error classification and rendering of golang-authentication:            *)
(*   internal/web/errors.go       shutdown marker, Error.SetCode, Error.JSON *)
(*   internal/handlers/errors.go  ControllerError and its Public() decoder   *)
(* Go strings are modelled as sequences of one-character strings, so that    *)
(* slicing and the comma scan of Public() are computed as the code does.     *)
EXTENDS Integers, Sequences, FiniteSets, TLC

VARIABLES
    codes,      \* Error.codes: the map from public code to HTTP status
    codesNil,   \* TRUE while Error.codes is the nil map (SetCode never called)
    op,         \* the operation that ran last: "init", "SetCode" or "JSON"
    outcome,    \* "none", "responded" (Respond was called) or "panic"
    err,        \* the error value handed to the last Error.JSON call
    data,       \* the document the last Error.JSON call handed to Respond
    status,     \* the status the last Error.JSON call handed to Respond
    responses,  \* the last (at most two) results of consecutive Error.JSON calls
                \* on the same error with no SetCode in between
    lastSet,    \* history: the <<code, status>> of the latest SetCode per code
    cPrefix, cCode, cMessage,  \* codec: the parts of an encoded error
    encoded,    \* codec: the ControllerError text built from the parts
    decoded,    \* codec: what ControllerError.Public returned
    cpc,        \* codec: "idle", "parts", "encoded", "decoded" or "panic"
    sErr,       \* shutdown: the error value in hand, outermost layer first
    sResult,    \* shutdown: the answers IsShutdown gave for sErr
    spc         \* shutdown: "idle", "none", "made" or "checked"

vars == <<codes, codesNil, op, outcome, err, data, status, responses, lastSet,
          cPrefix, cCode, cMessage, encoded, decoded, cpc, sErr, sResult, spc>>
webVars == <<codes, codesNil, op, outcome, err, data, status, responses, lastSet>>
codecVars == <<cPrefix, cCode, cMessage, encoded, decoded, cpc>>
shutdownVars == <<sErr, sResult, spc>>

(***************************************************************************)
(* Bounds of the model.                                                    *)
(***************************************************************************)
MaxFields == 2
MaxCodeLen == 2
MaxMsgLen == 2
MaxWrap == 3

(***************************************************************************)
(* Strings.                                                                *)
(***************************************************************************)
Range(s) == {s[i] : i \in 1..Len(s)}
SeqsUpTo(A, n) == UNION {[1..k -> A] : k \in 0..n}

Handlers == <<"h","a","n","d","l","e","r","s">>
Models == <<"m","o","d","e","l","s">>
Web == <<"w","e","b">>
\* len("handlers: ")
HandlersPrefixLen == Len(Handlers \o <<":", " ">>)

not_found == <<"n","o","t","_","f","o","u","n","d">>
invalid_form == <<"i","n","v","a","l","i","d","_","f","o","r","m">>
server_error == <<"s","e","r","v","e","r","_","e","r","r","o","r">>
validation_error ==
    <<"v","a","l","i","d","a","t","i","o","n","_","e","r","r","o","r">>

\* The convention of the exported errors: "<prefix>: <code>, <message>".
Encode(prefix, code, message) ==
    prefix \o <<":", " ">> \o code \o <<",", " ">> \o message

ErrNotFoundText ==
    Encode(Handlers, not_found,
           <<"r","e","s","o","u","r","c","e"," ","n","o","t"," ",
             "f","o","u","n","d">>)
ErrInvalidFormInputText ==
    Encode(Handlers, invalid_form,
           <<"p","r","o","v","i","d","e","d"," ","i","n","p","u","t"," ",
             "c","a","n","n","o","t"," ","b","e"," ","p","a","r","s","e","d">>)

(***************************************************************************)
(* handlers.ControllerError                                                *)
(***************************************************************************)
\* string(e)[len("handlers: "):] panics when the text is shorter than the prefix.
ControllerErrorPublicPanics(e) == Len(e) < HandlersPrefixLen

\* Public(): drop the prefix, then cut at the first comma found by a scan that
\* starts at index 1 of the remainder (index 2 of a 1-based sequence).
ControllerErrorPublic(e) ==
    LET s == SubSeq(e, HandlersPrefixLen + 1, Len(e))
        commas == {i \in 2..Len(s) : s[i] = ","}
    IN  IF commas = {} THEN s
        ELSE SubSeq(s, 1, (CHOOSE i \in commas : \A j \in commas : i <= j) - 1)

(***************************************************************************)
(* Error values.  An error is a record of its dynamic type, its text and,  *)
(* for a models.ValidationError, its map from field name to field error.   *)
(***************************************************************************)
ControllerError(text) ==
    [type |-> "ControllerError", text |-> text, fields |-> << >>]
privateError(text) ==
    [type |-> "privateError", text |-> text, fields |-> << >>]
ValidationError(fields) ==
    [type |-> "ValidationError", text |-> << >>, fields |-> fields]

ErrNotFound == ControllerError(ErrNotFoundText)
ErrInvalidFormInput == ControllerError(ErrInvalidFormInputText)
\* A ControllerError with no comma after the prefix, and one shorter than it.
ErrNoComma == ControllerError(Handlers \o <<":", " ">> \o <<"o","o","p","s">>)
ErrShort == ControllerError(Handlers)

FieldNames == {"email", "age", "name"}
FieldErrors == {ErrNotFound, ErrInvalidFormInput, ErrShort}
ValidationErrors ==
    {ValidationError(m) :
        m \in UNION {[S -> FieldErrors] :
                        S \in {T \in SUBSET FieldNames : Cardinality(T) <= MaxFields}}}
OpaqueErrors == {privateError(ErrNotFoundText), privateError(<<"b","o","o","m">>)}
ControllerErrors == {ErrNotFound, ErrInvalidFormInput, ErrNoComma, ErrShort}
Errors == OpaqueErrors \cup ControllerErrors \cup ValidationErrors

\* The errors given to SetCode, and the statuses registered for them.
SetCodeErrors ==
    {ErrNotFound, ErrInvalidFormInput, ErrShort, ValidationError(<< >>)}
Statuses == {0, 404, 422}

\* err.(models.PublicError): the dynamic type has a Public() method.
IsPublicError(e) == e.type \in {"ControllerError", "ValidationError"}
\* err.(models.ValidationError)
IsValidationError(e) == e.type = "ValidationError"

\* models.ValidationError.Public()
ValidationErrorPublic(e) == validation_error

\* pe.Public(), dispatched on the dynamic type.
Public(e) ==
    IF e.type = "ControllerError" THEN ControllerErrorPublic(e.text)
    ELSE ValidationErrorPublic(e)

PublicPanics(e) ==
    e.type = "ControllerError" /\ ControllerErrorPublicPanics(e.text)

(***************************************************************************)
(* web.Error                                                               *)
(***************************************************************************)
StatusInternalServerError == 500
StatusBadRequest == 400

\* e.codes[public]: a missing key (and the nil map) reads as the zero value.
MapGet(m, k) == IF k \in DOMAIN m THEN m[k] ELSE 0

SetCodeMap_remake(m, public, code) == public :> code

\* e.codes[err.Public()] = code
SetCodeMap(m, public, code) ==
    [k \in DOMAIN m \cup {public} |-> IF k = public THEN code ELSE m[k]]

JSONDefaults_leak(e) ==
    [status |-> StatusInternalServerError, data |-> "error" :> e.text]

\* status := http.StatusInternalServerError; data := {"error": "server_error"}
JSONDefaults(e) ==
    [status |-> StatusInternalServerError, data |-> "error" :> server_error]

PublicStatus_keepDefault(m, public, fallback) ==
    IF MapGet(m, public) # 0 THEN MapGet(m, public) ELSE StatusInternalServerError

PublicStatus_ignoreCodes(m, public, fallback) == fallback

\* if s := e.codes[public]; s != 0 { status = s }
PublicStatus(m, public, fallback) ==
    IF MapGet(m, public) # 0 THEN MapGet(m, public) ELSE fallback

FieldStatus_noLookup(m, public, current) == current

FieldStatus_resetDefault(m, public, current) ==
    IF MapGet(m, public) # 0 THEN MapGet(m, public) ELSE StatusBadRequest

\* the same lookup inside the loop over the fields
FieldStatus(m, public, current) ==
    IF MapGet(m, public) # 0 THEN MapGet(m, public) ELSE current

VemPut_byCode(vem, field, public) == vem @@ ("field" :> public)

\* vem[field] = public
VemPut(vem, field, public) ==
    [k \in DOMAIN vem \cup {field} |-> IF k = field THEN public ELSE vem[k]]

\* for field, err := range ve { ... }: the fields are visited in `order`.
RECURSIVE RangeLoop(_, _, _, _)
RangeLoop(ve, order, st, vem) ==
    IF order = << >> THEN [status |-> st, vem |-> vem]
    ELSE LET field == Head(order)
             public == Public(ve[field])
         IN  RangeLoop(ve, Tail(order),
                       FieldStatus(codes, public, st),
                       VemPut(vem, field, public))

\* The orders in which a range over a Go map may visit its keys.
Orders(S) ==
    {o \in [1..Cardinality(S) -> S] :
        \A i, j \in 1..Cardinality(S) : i # j => o[i] # o[j]}

\* Error.JSON panics when a Public() it calls panics.
JSONPanics(e) ==
    \/ IsPublicError(e) /\ PublicPanics(e)
    \/ IsValidationError(e) /\ \E f \in DOMAIN e.fields : PublicPanics(e.fields[f])

\* What Error.JSON hands to Respond for e when the fields are visited in `order`.
JSONResult(e, order) ==
    LET d == JSONDefaults(e)
        p == IF IsPublicError(e)
             THEN [status |-> PublicStatus(codes, Public(e), StatusBadRequest),
                   data |-> "error" :> Public(e)]
             ELSE d
    IN  IF IsValidationError(e)
        THEN LET l == RangeLoop(e.fields, order, p.status, << >>)
             IN  [status |-> l.status, data |-> p.data @@ ("fields" :> l.vem)]
        ELSE p

NoError == privateError(<< >>)

InitWeb ==
    /\ codes = << >>
    /\ codesNil = TRUE
    /\ op = "init"
    /\ outcome = "none"
    /\ err = NoError
    /\ data = << >>
    /\ status = 0
    /\ responses = << >>
    /\ lastSet = {}

\* func (e *Error) SetCode(err models.PublicError, code int)
SetCode(e, code) ==
    /\ outcome # "panic"
    /\ op' = "SetCode"
    /\ responses' = << >>
    /\ IF PublicPanics(e)
       THEN /\ outcome' = "panic"
            /\ UNCHANGED <<codes, codesNil, lastSet>>
       ELSE /\ outcome' = "none"
            /\ codesNil' = FALSE
            /\ codes' = SetCodeMap(codes, Public(e), code)
            /\ lastSet' = {p \in lastSet : p[1] # Public(e)}
                              \cup {<<Public(e), code>>}
    /\ UNCHANGED <<err, data, status>>

\* func (e Error) JSON(ctx, w, err error) error
JSON(e, order) ==
    /\ outcome # "panic"
    /\ op' = "JSON"
    /\ err' = e
    /\ IF JSONPanics(e)
       THEN /\ outcome' = "panic"
            /\ responses' = << >>
            /\ UNCHANGED <<data, status>>
       ELSE LET r == JSONResult(e, order)
            IN  /\ outcome' = "responded"
                /\ data' = r.data
                /\ status' = r.status
                /\ responses' =
                       IF op = "JSON" /\ err = e /\ responses # << >>
                       THEN <<responses[Len(responses)], r>>
                       ELSE <<r>>
    /\ UNCHANGED <<codes, codesNil, lastSet>>

InitCodecIdle ==
    /\ cPrefix = << >> /\ cCode = << >> /\ cMessage = << >>
    /\ encoded = << >> /\ decoded = << >> /\ cpc = "idle"

InitShutdownIdle ==
    /\ sErr = << >> /\ sResult = {} /\ spc = "idle"

Init == InitWeb /\ InitCodecIdle /\ InitShutdownIdle

SetCodeStep ==
    \E e \in SetCodeErrors, code \in Statuses :
        SetCode(e, code) /\ UNCHANGED <<codecVars, shutdownVars>>

JSONStep ==
    \E e \in Errors : \E order \in Orders(DOMAIN e.fields) :
        JSON(e, order) /\ UNCHANGED <<codecVars, shutdownVars>>

Next == SetCodeStep \/ JSONStep

Spec == Init /\ [][Next]_vars

(***************************************************************************)
(* The error-code convention: a ControllerError is built from its parts    *)
(* and decoded by Public().                                                *)
(***************************************************************************)
Alphabet == {"a", ",", " "}
Prefixes == {Handlers, Models, Web}

InitCodec ==
    /\ cPrefix \in Prefixes
    /\ cCode \in SeqsUpTo(Alphabet, MaxCodeLen)
    /\ cMessage \in SeqsUpTo(Alphabet, MaxMsgLen)
    /\ encoded = << >> /\ decoded = << >> /\ cpc = "parts"

\* const Err... ControllerError = "<prefix>: <code>, <message>"
NewControllerError ==
    /\ cpc = "parts"
    /\ encoded' = Encode(cPrefix, cCode, cMessage)
    /\ cpc' = "encoded"
    /\ UNCHANGED <<cPrefix, cCode, cMessage, decoded>>

\* ControllerError(encoded).Public()
CallPublic ==
    /\ cpc = "encoded"
    /\ IF ControllerErrorPublicPanics(encoded)
       THEN cpc' = "panic" /\ UNCHANGED decoded
       ELSE cpc' = "decoded" /\ decoded' = ControllerErrorPublic(encoded)
    /\ UNCHANGED <<cPrefix, cCode, cMessage, encoded>>

NextCodec ==
    \/ NewControllerError /\ UNCHANGED <<webVars, shutdownVars>>
    \/ CallPublic /\ UNCHANGED <<webVars, shutdownVars>>

CodecInit == InitWeb /\ InitCodec /\ InitShutdownIdle

SpecCodec == CodecInit /\ [][NextCodec]_vars

(***************************************************************************)
(* The shutdown marker.  An error value is the sequence of its layers, the *)
(* outermost first: the wrappers of github.com/pkg/errors around a base    *)
(* error, which is a *shutdown or an ordinary errors.New value.            *)
(***************************************************************************)
Messages == {"bye", "oops"}
Causers == {"withStack", "withMessage"}

Cause_oneLayer(e) ==
    IF e # << >> /\ Head(e).type \in Causers THEN Tail(e) ELSE e

\* errors.Cause: follow Cause() while the value has one.
RECURSIVE Cause(_)
Cause(e) ==
    IF e # << >> /\ Head(e).type \in Causers THEN Cause(Tail(e)) ELSE e

\* _, ok := errors.Cause(err).(*shutdown)
IsShutdown(e) ==
    LET c == Cause(e) IN c # << >> /\ Head(c).type = "shutdown"

InitShutdown ==
    /\ sErr = << >> /\ sResult = {} /\ spc = "none"

\* NewShutdownError(message): &shutdown{message}
NewShutdownError(message) ==
    /\ sErr' = <<[type |-> "shutdown", msg |-> message]>>
    /\ sResult' = {}
    /\ spc' = "made"

\* errors.New(message): an ordinary error
ErrorsNew(message) ==
    /\ sErr' = <<[type |-> "fundamental", msg |-> message]>>
    /\ sResult' = {}
    /\ spc' = "made"

\* errors.WithStack(err)
WithStack ==
    /\ sErr # << >>
    /\ Len(sErr) <= MaxWrap
    /\ sErr' = <<[type |-> "withStack", msg |-> ""]>> \o sErr
    /\ sResult' = {}
    /\ spc' = "made"

\* errors.WithMessage(err, message)
WithMessage(message) ==
    /\ sErr # << >>
    /\ Len(sErr) <= MaxWrap
    /\ sErr' = <<[type |-> "withMessage", msg |-> message]>> \o sErr
    /\ sResult' = {}
    /\ spc' = "made"

\* IsShutdown(err)
CallIsShutdown ==
    /\ sResult' = sResult \cup {IsShutdown(sErr)}
    /\ spc' = "checked"
    /\ UNCHANGED sErr

NextShutdown ==
    \/ (\E m \in Messages : NewShutdownError(m)) /\ UNCHANGED <<webVars, codecVars>>
    \/ (\E m \in Messages : ErrorsNew(m)) /\ UNCHANGED <<webVars, codecVars>>
    \/ WithStack /\ UNCHANGED <<webVars, codecVars>>
    \/ (\E m \in Messages : WithMessage(m)) /\ UNCHANGED <<webVars, codecVars>>
    \/ CallIsShutdown /\ UNCHANGED <<webVars, codecVars>>

ShutdownInit == InitWeb /\ InitCodecIdle /\ InitShutdown

SpecShutdown == ShutdownInit /\ [][NextShutdown]_vars

(***************************************************************************)
(* Properties of Error.SetCode and Error.JSON (specification Spec).        *)
(***************************************************************************)
\* The last step was an Error.JSON call that reached Respond, so that
\* <<data, status>> is what it rendered for err under the present registry.
Rendered == op = "JSON" /\ outcome = "responded"

\* The statuses JSON's lookup finds (non-zero) for the codes of e's fields.
FieldOverrides(e) ==
    {MapGet(codes, Public(e.fields[f])) : f \in DOMAIN e.fields} \ {0}

\* C1: every error without a Public() method is rendered as exactly
\* {"error": "server_error"} with status 500, whatever its text and whatever
\* the registry holds.
C1_OpaqueIsServerError ==
    (op = "JSON" /\ ~IsPublicError(err)) =>
        /\ outcome = "responded"
        /\ data = ("error" :> server_error)
        /\ status = StatusInternalServerError

\* An opaque error whose text spells a registered public code was rendered.
C1_Witness ==
    /\ Rendered
    /\ err = privateError(ErrNotFoundText)
    /\ MapGet(codes, not_found) = 404

\* C2 as stated: every error with a public code c that has no registry entry
\* is rendered as exactly {"error": c} with status 400.
C2_Original ==
    (Rendered /\ IsPublicError(err) /\ Public(err) \notin DOMAIN codes) =>
        /\ data = ("error" :> Public(err))
        /\ status = StatusBadRequest

\* C2 amended: the same for every error with a public code that is not a
\* validation error.
C2_NoEntryIsBadRequest ==
    (/\ Rendered
     /\ IsPublicError(err)
     /\ ~IsValidationError(err)
     /\ Public(err) \notin DOMAIN codes) =>
        /\ data = ("error" :> Public(err))
        /\ status = StatusBadRequest

\* A ControllerError was rendered while SetCode had never been called.
C2_Witness ==
    /\ Rendered
    /\ codesNil
    /\ err = ErrNotFound
    /\ status = StatusBadRequest

\* C3 as stated: once SetCode has registered s for c, whatever integer s is,
\* an error with public code c is rendered with status s.
C3_Original ==
    (Rendered /\ IsPublicError(err)) =>
        \A p \in lastSet : p[1] = Public(err) => status = p[2]

\* C3 amended: the same for every s other than 0 and every error that is not a
\* validation error with a field whose code has a non-zero registered status.
C3_RegisteredStatusIsUsed ==
    (/\ Rendered
     /\ IsPublicError(err)
     /\ ~(IsValidationError(err) /\ FieldOverrides(err) # {})) =>
        \A p \in lastSet : (p[1] = Public(err) /\ p[2] # 0) => status = p[2]

\* ErrNotFound was rendered after SetCode(ErrNotFound, 422).
C3_Witness ==
    /\ Rendered
    /\ err = ErrNotFound
    /\ <<not_found, 422>> \in lastSet
    /\ status = 422

C5_FieldsMirrorTheAggregate ==
    Rendered =>
        /\ ("fields" \in DOMAIN data) <=> IsValidationError(err)
        /\ IsValidationError(err) =>
              /\ DOMAIN data["fields"] = DOMAIN err.fields
              /\ \A f \in DOMAIN err.fields :
                    data["fields"][f] = Public(err.fields[f])

\* A validation error with two fields of different codes was rendered.
C5_Witness ==
    /\ Rendered
    /\ err = ValidationError(("email" :> ErrInvalidFormInput) @@ ("age" :> ErrNotFound))
    /\ data["fields"]["email"] = invalid_form
    /\ data["fields"]["age"] = not_found

\* C7 as stated: two renderings of the same error under an unchanged registry
\* give the same document and the same status.
C7_Original ==
    Len(responses) = 2 => responses[1] = responses[2]

\* C7 amended: they give the same document, and the same status unless the
\* error is a validation error whose fields have two or more distinct
\* (non-zero) registered statuses.
C7_SameUnlessDistinctOverrides ==
    Len(responses) = 2 =>
        /\ responses[1].data = responses[2].data
        /\ Cardinality(FieldOverrides(err)) <= 1
              => responses[1].status = responses[2].status

\* A validation error with an overridden and a non-overridden field was
\* rendered twice in a row.
C7_Witness ==
    /\ Len(responses) = 2
    /\ IsValidationError(err)
    /\ Cardinality(DOMAIN err.fields) = 2
    /\ Cardinality(FieldOverrides(err)) = 1
    /\ \E f \in DOMAIN err.fields : MapGet(codes, Public(err.fields[f])) = 0

\* C9: Error.JSON never panics: every call reaches Respond with a document
\* that has an "error" entry.
C9_RenderNeverPanics ==
    op = "JSON" => (outcome = "responded" /\ "error" \in DOMAIN data)

\* C10: the registry holds, for each code, exactly the status of the latest
\* SetCode for it and nothing else: SetCode changes only its own entry and
\* JSON changes none.
C10_RegistryIsLatestSetCode ==
    lastSet = {<<c, codes[c]>> : c \in DOMAIN codes}

\* Two codes were registered, one of them twice, and an error was rendered.
C10_Witness ==
    /\ Rendered
    /\ <<not_found, 422>> \in lastSet
    /\ <<invalid_form, 0>> \in lastSet
    /\ err = ErrNotFound

(***************************************************************************)
(* Property of the error-code convention (specification SpecCodec).        *)
(***************************************************************************)
\* C6: for a code without a comma, Public() of "handlers: <code>, <message>"
\* is exactly the code.
C6_RoundTrip ==
    (cpc = "decoded" /\ cPrefix = Handlers /\ "," \notin Range(cCode)) =>
        decoded = cCode

(***************************************************************************)
(* Property of the shutdown marker (specification SpecShutdown).           *)
(***************************************************************************)
\* C8: IsShutdown answers true exactly when the innermost error under all the
\* wrapping layers is a *shutdown; the message plays no part.
C8_IsShutdownIffMarker ==
    spc = "checked" =>
        sResult = {sErr # << >> /\ sErr[Len(sErr)].type = "shutdown"}

\* IsShutdown answered true for a marker under two wrapping layers.
C8_Witness ==
    /\ spc = "checked"
    /\ Len(sErr) = 3
    /\ sErr[3] = [type |-> "shutdown", msg |-> "bye"]
    /\ sResult = {TRUE}

=============================================================================
